---- MODULE Spec2Model ----
(***************************************************************************)
(* Shape and mask bookkeeping of deephumor/models/transformers.py.         *)
(*                                                                         *)
(* Tensors are modelled by their index structure: a batch of token         *)
(* sequences is a sequence (over the batch) of sequences of tokens, an     *)
(* encoder output is a batch of sequences of hid_dim-vectors, a boolean    *)
(* mask is a batch of query rows of key columns.  The floating point       *)
(* content of the attention computation is not modelled; embeddings are    *)
(* tagged values that remember which token (or image) they came from.      *)
(***************************************************************************)
EXTENDS Integers, Sequences, FiniteSets, TLC

VARIABLES pc, op, encoder, decoder, args, ret

vars == <<pc, op, encoder, decoder, args, ret>>

\* ---------------------------------------------------------------- bounds
MaxBs == 2
MaxLen == 2
MaxEncLen == 3
NumTokens == 2
HidDim == 2
NLayers == 2

\* ------------------------------------------------------ program constants
max_len == 128

\* ---------------------------------------------------------------- values
\* Optional values (Python None): the empty tuple is None, <<v>> is v.
None == <<>>
Some(v) == <<v>>
IsNone(o) == o = <<>>
Val(o) == o[1]

Tokens == 0..(NumTokens - 1)
PadIndices == {None} \cup {Some(p) : p \in Tokens}

Max(a, b) == IF a >= b THEN a ELSE b

TokenBatches(bs, len) == [1..bs -> [1..len -> Tokens]]
\* encoder output vectors (0 is 0.0, 1 a non-zero float): one with a zero
\* first component, one with no zero component
EncVectors ==
    {[d \in 1..HidDim |-> IF d = 1 THEN 0 ELSE 1],
     [d \in 1..HidDim |-> 1]}
EncBatches(bs, len) == [1..bs -> [1..len -> EncVectors]]

\* t.shape[0], t.shape[1] of a batch with at least one row
Dim0(t) == Len(t)
Dim1(t) == Len(t[1])

\* ------------------------------------------------------- masking utilities
GetPadMaskDefaultPad(query, key, pad_index) ==
    LET bs == Dim0(key)
        seq_len_q == Dim1(query)
        seq_len_k == Dim1(key)
    IN  [b \in 1..bs |-> [i \in 1..seq_len_q |-> [j \in 1..seq_len_k |->
            key[b][j] = 0]]]

get_pad_mask(query, key, pad_index) ==
    LET bs == Dim0(key)
        seq_len_q == Dim1(query)
        seq_len_k == Dim1(key)
    IN  [b \in 1..bs |-> [i \in 1..seq_len_q |-> [j \in 1..seq_len_k |->
            key[b][j] = pad_index]]]

GetAutoregressiveMaskDiag0(seq) ==
    LET bs == Dim0(seq)
        seq_len == Dim1(seq)
    IN  [b \in 1..bs |-> [i \in 1..seq_len |-> [j \in 1..seq_len |-> j - i >= 0]]]

\* torch.triu(ones, 1): entry (i, j) is kept iff j - i >= 1
get_autoregressive_mask(seq) ==
    LET bs == Dim0(seq)
        seq_len == Dim1(seq)
    IN  [b \in 1..bs |-> [i \in 1..seq_len |-> [j \in 1..seq_len |-> j - i >= 1]]]

MaskOr(m1, m2) ==
    [b \in 1..Dim0(m1) |-> [i \in 1..Len(m1[b]) |-> [j \in 1..Len(m1[b][i]) |->
        m1[b][i][j] \/ m2[b][i][j]]]]


\* ------------------------------------------------------------- embeddings
\* nn.Embedding lookups keep the index they were looked up with; the image
\* embedding of batch row b is a value no token embedding equals.
TokEmbedding(t) == <<"tok", t>>
ImageEmb(b) == <<"img", b>>
ImageEmbs(bs) == {None, Some([b \in 1..bs |-> ImageEmb(b)])}

\* ------------------------------------------------- MultiHeadAttentionLayer
\* Shapes broadcast when they agree or one of them is 1.
Broadcasts(from, to) == from = to \/ from = 1

\* forward(query, key, value, mask) on shapes: k.view(bs, seq_len, ...) uses the
\* query's seq_len for the key, masked_fill broadcasts the mask over the energy.
MultiHeadAttention(q_len, k_len, mask) ==
    IF k_len # q_len THEN [error |-> Some("RuntimeError"), len |-> 0]
    ELSE IF /\ ~IsNone(mask)
            /\ \E b \in 1..Len(Val(mask)) :
                  \/ ~Broadcasts(Len(Val(mask)[b]), q_len)
                  \/ \E i \in 1..Len(Val(mask)[b]) :
                        ~Broadcasts(Len(Val(mask)[b][i]), k_len)
         THEN [error |-> Some("RuntimeError"), len |-> 0]
    ELSE [error |-> None, len |-> q_len]

\* DecoderLayer.forward on shapes: self-attention, then encoder-attention.
DecoderLayer(x_len, enc_len, input_mask, enc_mask) ==
    LET self_attn == MultiHeadAttention(x_len, x_len, input_mask)
    IN  IF ~IsNone(self_attn.error) THEN self_attn
        ELSE MultiHeadAttention(self_attn.len, enc_len, enc_mask)

\* EncoderLayer.forward on shapes: self-attention only.
EncoderLayer(x_len, input_mask) == MultiHeadAttention(x_len, x_len, input_mask)

Raised(e) == [error |-> Some(e)]

\* ------------------------------------------------------ TransformerEncoder
\* instance attributes set by TransformerEncoder.__init__ (and its methods)
EncoderAttrs == {"pad_index", "tok_embedding", "pos_embedding", "dropout",
                 "layers", "scale", "init_weights", "forward"}

EncoderForward(self, x) ==
    LET bs == Dim0(x)
        seq_len == Dim1(x)
        tok_emb == [b \in 1..bs |-> [k \in 1..seq_len |-> TokEmbedding(x[b][k])]]
        indices == [b \in 1..bs |-> [k \in 1..seq_len |-> k - 1]]
    IN  IF seq_len > max_len THEN Raised("IndexError")
        ELSE IF "padding_index" \notin EncoderAttrs THEN Raised("AttributeError")
        ELSE LET mask == IF ~IsNone(self.pad_index)
                         THEN Some(get_pad_mask(x, x, Val(self.pad_index)))
                         ELSE None
                 layer == EncoderLayer(seq_len, mask)
             IN  IF ~IsNone(layer.error) THEN Raised(Val(layer.error))
                 ELSE [error |-> None,
                       layer_masks |-> [l \in 1..NLayers |-> mask],
                       out_shape |-> <<bs, layer.len, HidDim>>]

\* ------------------------------------------------------ TransformerDecoder
DecSeqLenNoImage(n, has_image) == n

\* dec_seq_len: the length of x, plus one when an image embedding is passed
DecSeqLen(n, has_image) == IF has_image THEN n + 1 ELSE n

DecoderForward(self, x0, enc_out0, image_emb) ==
    LET bs == Dim0(x0)
        enc_seq_len == Dim1(enc_out0)
        dec_seq_len == DecSeqLen(Dim1(x0), ~IsNone(image_emb))
        seq_len == Max(dec_seq_len, enc_seq_len)
    IN  IF IsNone(self.pad_index) THEN Raised("TypeError")
        ELSE
        LET pad_index == Val(self.pad_index)
            x1 == [b \in 1..bs |->
                     x0[b] \o [k \in 1..(seq_len - dec_seq_len) |-> pad_index]]
            enc_out == [b \in 1..bs |->
                     enc_out0[b] \o [k \in 1..(seq_len - enc_seq_len) |->
                                        [d \in 1..HidDim |-> 0]]]
            tok_emb0 == [b \in 1..bs |->
                     [k \in 1..Len(x1[b]) |-> TokEmbedding(x1[b][k])]]
            tok_emb == IF ~IsNone(image_emb)
                       THEN [b \in 1..bs |-> <<Val(image_emb)[b]>> \o tok_emb0[b]]
                       ELSE tok_emb0
            indices == [b \in 1..bs |-> [k \in 1..seq_len |-> k - 1]]
        IN  IF seq_len > max_len THEN Raised("IndexError")
            ELSE IF ~(Broadcasts(Dim1(tok_emb), seq_len) \/ Broadcasts(seq_len, Dim1(tok_emb)))
            THEN Raised("RuntimeError")
            ELSE
            LET emb_len == Max(Dim1(tok_emb), seq_len)
                x == IF ~IsNone(image_emb)
                     THEN [b \in 1..bs |-> <<1>> \o x1[b]]
                     ELSE x1
                pad_mask == get_pad_mask(x, x, pad_index)
                autoregr_mask == get_autoregressive_mask(x)
                input_mask == MaskOr(pad_mask, autoregr_mask)
                enc_inp_mask == [b \in 1..bs |-> [k \in 1..Dim1(enc_out) |->
                     IF \A d \in 1..HidDim : enc_out[b][k][d] # 0 THEN 1 ELSE 0]]
                enc_mask == get_pad_mask(x, enc_inp_mask, pad_index)
                layer == DecoderLayer(emb_len, Dim1(enc_out), Some(input_mask), Some(enc_mask))
            IN  IF ~IsNone(layer.error) THEN Raised(Val(layer.error))
                ELSE [error |-> None,
                      x |-> x,
                      tok_emb |-> tok_emb,
                      indices |-> indices,
                      enc_out |-> enc_out,
                      input_mask |-> input_mask,
                      enc_mask |-> enc_mask,
                      layer_masks |-> [l \in 1..NLayers |->
                          [input_mask |-> input_mask, enc_mask |-> enc_mask]],
                      out_shape |-> <<bs, layer.len, NumTokens>>]

\* ------------------------------------------------------------ state machine
Module(pad_index) == [pad_index |-> pad_index, max_len |-> max_len]

Idle == /\ pc = "idle" /\ op = "none" /\ args = <<>> /\ ret = <<>>

\* default construction: pad_index=None
InitDefault ==
    /\ Idle
    /\ encoder = Module(None)
    /\ decoder = Module(None)

InitEncoder ==
    /\ Idle
    /\ encoder \in {Module(p) : p \in PadIndices}
    /\ decoder = Module(None)

InitDecoder ==
    /\ Idle
    /\ encoder = Module(None)
    /\ decoder \in {Module(p) : p \in PadIndices}

Finish(r) ==
    /\ ret' = r
    /\ pc' = IF IsNone(r.error) THEN "done" ELSE "raised"

\* query batches of one shape: rows of a single repeated token and a row that
\* runs through the tokens
QueryBatches(bs, len) ==
    {[b \in 1..bs |-> [i \in 1..len |-> t]] : t \in Tokens}
    \cup {[b \in 1..bs |-> [i \in 1..len |-> (b + i) % NumTokens]]}

CallGetPadMask ==
    /\ pc = "idle"
    /\ \E bs \in 1..MaxBs, query_len \in 1..MaxLen, key_len \in 1..MaxLen :
       \E query \in QueryBatches(bs, query_len), key \in TokenBatches(bs, key_len),
          pad_index \in Tokens :
          /\ op' = "get_pad_mask"
          /\ args' = [query |-> query, key |-> key, pad_index |-> pad_index]
          /\ Finish([error |-> None, mask |-> get_pad_mask(query, key, pad_index)])
    /\ UNCHANGED <<encoder, decoder>>

CallGetAutoregressiveMask ==
    /\ pc = "idle"
    /\ \E bs \in 1..MaxBs, seq_len \in 1..MaxLen :
       \E seq \in TokenBatches(bs, seq_len) :
          /\ op' = "get_autoregressive_mask"
          /\ args' = [seq |-> seq]
          /\ Finish([error |-> None, mask |-> get_autoregressive_mask(seq)])
    /\ UNCHANGED <<encoder, decoder>>

CallEncoderForward ==
    /\ pc = "idle"
    /\ \E bs \in 1..MaxBs, seq_len \in 1..MaxLen :
       \E x \in TokenBatches(bs, seq_len) :
          /\ op' = "encoder_forward"
          /\ args' = [x |-> x]
          /\ Finish(EncoderForward(encoder, x))
    /\ UNCHANGED <<encoder, decoder>>

DecoderCall(x, enc_out, image_emb) ==
    /\ op' = "decoder_forward"
    /\ args' = [x |-> x, enc_out |-> enc_out, image_emb |-> image_emb]
    /\ Finish(DecoderForward(decoder, x, enc_out, image_emb))

CallDecoderForward ==
    /\ pc = "idle"
    /\ \E bs \in 1..MaxBs, n \in 1..MaxLen, enc_len \in 1..MaxEncLen :
       \E x \in TokenBatches(bs, n), enc_out \in EncBatches(bs, enc_len),
          image_emb \in ImageEmbs(bs) :
          DecoderCall(x, enc_out, image_emb)
    /\ UNCHANGED <<encoder, decoder>>

\* encoder outputs whose vectors have no zero component
DenseEncBatch(bs, len) == [b \in 1..bs |-> [k \in 1..len |-> [d \in 1..HidDim |-> 1]]]

CallDecoderForwardImage ==
    /\ pc = "idle"
    /\ \E bs \in 1..MaxBs, n \in 1..MaxLen, enc_len \in 1..MaxEncLen :
       \E x \in TokenBatches(bs, n) :
          DecoderCall(x, DenseEncBatch(bs, enc_len), Some([b \in 1..bs |-> ImageEmb(b)]))
    /\ UNCHANGED <<encoder, decoder>>

Return ==
    /\ pc \in {"done", "raised"}
    /\ pc' = "idle" /\ op' = "none" /\ args' = <<>> /\ ret' = <<>>
    /\ UNCHANGED <<encoder, decoder>>

NextMasks == CallGetPadMask \/ CallGetAutoregressiveMask \/ Return
NextDecoder == CallDecoderForward \/ Return
NextDecoderImage == CallDecoderForwardImage \/ Return

SpecMasks == InitDefault /\ [][NextMasks]_vars
SpecDecoder == InitDecoder /\ [][NextDecoder]_vars
SpecDecoderImage == InitDecoder /\ [][NextDecoderImage]_vars

Init == InitEncoder \/ InitDecoder
Next ==
    \/ CallGetPadMask
    \/ CallGetAutoregressiveMask
    \/ CallEncoderForward
    \/ CallDecoderForward
    \/ CallDecoderForwardImage
    \/ Return
Spec == Init /\ [][Next]_vars


\* ------------------------------------------------------------------ claims
IsCall(name) == op = name /\ pc \in {"done", "raised"}

\* C1: get_pad_mask returns a mask of shape [bs, query_len, key_len] whose
\* entry [b, i, j] is true exactly when key[b, j] equals pad_index, for every
\* query row i and whatever the values in query are.
C1_PadMask ==
    IsCall("get_pad_mask") =>
        /\ pc = "done"
        /\ Len(ret.mask) = Dim0(args.key)
        /\ \A b \in 1..Dim0(args.key) :
            /\ Len(ret.mask[b]) = Dim1(args.query)
            /\ \A i \in 1..Dim1(args.query) :
                /\ Len(ret.mask[b][i]) = Dim1(args.key)
                /\ \A j \in 1..Dim1(args.key) :
                    ret.mask[b][i][j] = (args.key[b][j] = args.pad_index)

C1_Witness ==
    /\ IsCall("get_pad_mask") /\ pc = "done"
    /\ Dim0(args.key) = 2
    /\ Dim1(args.query) = 1 /\ Dim1(args.key) = 2
    /\ args.pad_index # 0
    /\ args.key[1] = <<args.pad_index, 0>>
    /\ args.key[2] = <<0, 0>>
    /\ args.query[1][1] = args.pad_index
    /\ ret.mask[1][1][1] /\ ~ret.mask[1][1][2] /\ ~ret.mask[2][1][1]

\* C2: get_autoregressive_mask returns a mask of shape [bs, seq_len, seq_len]
\* whose entry [b, i, j] is true exactly when j > i, the same for every batch
\* element and whatever the tokens in seq are.
C2_AutoregressiveMask ==
    IsCall("get_autoregressive_mask") =>
        /\ pc = "done"
        /\ Len(ret.mask) = Dim0(args.seq)
        /\ \A b \in 1..Dim0(args.seq) :
            /\ Len(ret.mask[b]) = Dim1(args.seq)
            /\ \A i \in 1..Dim1(args.seq) :
                /\ Len(ret.mask[b][i]) = Dim1(args.seq)
                /\ \A j \in 1..Dim1(args.seq) : ret.mask[b][i][j] = (j > i)

C2_Witness ==
    /\ IsCall("get_autoregressive_mask") /\ pc = "done"
    /\ Dim0(args.seq) = 2 /\ Dim1(args.seq) = 2
    /\ args.seq[1] # args.seq[2]
    /\ ret.mask[1][1][2] /\ ~ret.mask[1][1][1] /\ ~ret.mask[1][2][1]
    /\ ret.mask[2] = ret.mask[1]

\* C3: TransformerEncoder.forward completes on every x with seq_len <= max_len,
\* returns shape [bs, seq_len, hid_dim], and passes every layer the padding mask
\* of x when pad_index is not None and no mask when it is None.
C3_EncoderForward ==
    (IsCall("encoder_forward") /\ Dim1(args.x) <= encoder.max_len) =>
        /\ pc = "done"
        /\ ret.out_shape = <<Dim0(args.x), Dim1(args.x), HidDim>>
        /\ \A l \in 1..NLayers :
            ret.layer_masks[l] =
                IF IsNone(encoder.pad_index) THEN None
                ELSE Some(get_pad_mask(args.x, args.x, Val(encoder.pad_index)))

\* C4: a TransformerDecoder constructed with pad_index=None runs forward to
\* completion and masks self-attention with the autoregressive mask only.
C4_DecoderNoPadIndex ==
    (IsCall("decoder_forward") /\ IsNone(decoder.pad_index)) =>
        /\ pc = "done"
        /\ \A b \in 1..Len(ret.input_mask) :
           \A i \in 1..Len(ret.input_mask[b]) :
           \A j \in 1..Len(ret.input_mask[b][i]) :
               ret.input_mask[b][i][j] = (j > i)

\* C5: TransformerDecoder.forward returns shape [bs, seq_len, num_tokens] where
\* seq_len is the sequence length of the input x, for any encoder length, with
\* or without image_emb.
C5_DecoderOutShape ==
    (IsCall("decoder_forward") /\ ~IsNone(decoder.pad_index)) =>
        /\ pc = "done"
        /\ ret.out_shape = <<Dim0(args.x), Dim1(args.x), NumTokens>>

C7_DecoderInputMask ==
    (IsCall("decoder_forward") /\ ~IsNone(decoder.pad_index)) =>
        /\ pc = "done"
        /\ \A b \in 1..Len(ret.input_mask) :
           \A i \in 1..Len(ret.input_mask[b]) :
           \A j \in 1..Len(ret.input_mask[b][i]) :
               ret.input_mask[b][i][j] =
                   (j > i \/ ret.tok_emb[b][j] = TokEmbedding(Val(decoder.pad_index)))
        /\ \A l \in 1..NLayers : ret.layer_masks[l].input_mask = ret.input_mask

\* C8: for every pad_index, the encoder-attention mask entry [b, i, j] is true
\* exactly for the encoder positions forward appended (j >= enc_len) and false
\* for every original encoder position, zero components or not.
C8_DecoderEncMask ==
    (IsCall("decoder_forward") /\ ~IsNone(decoder.pad_index)) =>
        /\ pc = "done"
        /\ \A b \in 1..Len(ret.enc_mask) :
           \A i \in 1..Len(ret.enc_mask[b]) :
           \A j \in 1..Len(ret.enc_mask[b][i]) :
               ret.enc_mask[b][i][j] = (j > Dim1(args.enc_out))

====
